---------------------------- MODULE Spec2Model ----------------------------
(***************************************************************************)
(* The example graphs of the repository as one state machine.  `graph`     *)
(* names the example program that is running, `cur` the node the engine    *)
(* executed last (START before the first node, END once the run is over).  *)
(* One action is one engine step: the outgoing edge of `cur` is resolved   *)
(* on the current merged state, the destination node's function runs, and  *)
(* its partial state is merged.                                            *)
(*                                                                         *)
(*   simple_counter    src/src/simple-counter.agent.ts                     *)
(*   countdown         src/unnamed/part_001                                *)
(*   calculator        src/unnamed/part_002                                *)
(*   calculator_tools  src/src/people-places-extractor.agent.ts (221-355)  *)
(*   browser_tool      src/src/browser-tool.agent.ts                       *)
(*   web_search        src/unnamed/part_003 (147-269)                      *)
(*   people_extractor  src/src/people-extractor.agent.ts                   *)
(*   people_places     src/src/people-places-extractor.agent.ts (1-219)    *)
(*   names_to_people   src/unnamed/part_003 (1-146)                        *)
(***************************************************************************)
EXTENDS Integers, Sequences, FiniteSets

VARIABLES
    graph,       \* the example program being run
    cur,         \* the node executed last; START, or END
    number,      \* countdown state field `number`
    history,     \* countdown state field `history`
    messages,    \* MessagesAnnotation state field `messages`
    steps,       \* node executions of the current invocation
    input,       \* the state handed to the current invoke(...)
    invocation,  \* which invoke(...) call of main is running
    failure,     \* "none", or the error that aborted the invocation
    process,     \* the process: running or exited, its exit code, what it logged
    fields,      \* the state of the extraction graphs: field name -> value
    inflight,    \* nodes started and not completed: node -> the state it read
    returned,    \* the partial state each completed node returned
    routed       \* what the router of the last step returned, where the
                 \* router is an input of the run; "none" before that

engineVars == <<failure, process, fields, inflight, returned, routed>>

vars == <<graph, cur, number, history, messages, steps, input, invocation,
          failure, process, fields, inflight, returned, routed>>

\* Sentinels of the framework, as the sources import them.
START == "__start__"
END == "__end__"

----------------------------------------------------------------------------
\* Bounds of the model.

\* Initial numbers range over -MaxNeg .. MaxStart, and startNumber.
MaxNeg == 3
MaxStart == 30
\* An initial history holds at most MaxInitHist entries.
MaxInitHist == 1
\* Tool calls requested by one model reply.
MaxCalls == 2
\* Model replies (agent node executions) in one invocation.
MaxTurns == 2
\* Names the structured-output model extracts from one text.
MaxNames == 2
\* Node executions of a run whose router is an input of the run.
MaxSteps == 3

\* main: const startNumber = 57
startNumber == 57

CountdownGraphs == {"simple_counter", "countdown"}
AgentGraphs == {"calculator", "calculator_tools", "browser_tool", "web_search"}
ExtractionGraphs == {"people_extractor", "people_places", "names_to_people"}
Graphs == CountdownGraphs \cup AgentGraphs \cup ExtractionGraphs

StartNumbers == ((0 - MaxNeg) .. MaxStart) \cup {startNumber}
InitialHistories ==
    UNION {[1..n -> {0, 100}] : n \in 0..MaxInitHist}

Last(s) == s[Len(s)]

\* The countdown state as the node functions and routers receive it.
CounterState == [number |-> number, history |-> history]

----------------------------------------------------------------------------
\* State Container.  A state and a partial state are mappings from field
\* names to values; a schema maps every declared field to its reducer.

\* The empty mapping: no field, no node.
Empty == <<>>

Put(f, k, v) == [x \in DOMAIN f \cup {k} |-> IF x = k THEN v ELSE f[x]]
Drop(f, k) == [x \in DOMAIN f \ {k} |-> f[x]]

\* The partial writes a field the schema does not declare.
Undeclared(schema, partial) == DOMAIN partial \ DOMAIN schema

\* merge that silently drops the fields the schema does not declare.
merge_IgnoreUnknown(schema, current, partial) ==
    IF Undeclared(schema, partial) # {}
    THEN [ok |-> TRUE,
          state |-> [f \in DOMAIN current \cup (DOMAIN partial \cap DOMAIN schema) |->
                        IF f \in DOMAIN partial THEN partial[f] ELSE current[f]]]
    ELSE [ok |-> TRUE,
          state |-> [f \in DOMAIN current \cup DOMAIN partial |->
                        IF f \notin DOMAIN partial THEN current[f]
                        ELSE IF schema[f] = "append"
                        THEN (IF f \in DOMAIN current THEN current[f] ELSE <<>>)
                             \o partial[f]
                        ELSE partial[f]]]

\* merge(current, partial): an overwrite field takes the partial's value, an
\* append field is extended by the partial's sequence; a field the schema
\* does not declare is a schema violation and leaves the state as it was.
merge(schema, current, partial) ==
    IF Undeclared(schema, partial) # {}
    THEN [ok |-> FALSE, state |-> current]
    ELSE [ok |-> TRUE,
          state |-> [f \in DOMAIN current \cup DOMAIN partial |->
                        IF f \notin DOMAIN partial THEN current[f]
                        ELSE IF schema[f] = "append"
                        THEN (IF f \in DOMAIN current THEN current[f] ELSE <<>>)
                             \o partial[f]
                        ELSE partial[f]]]

----------------------------------------------------------------------------
\* src/src/simple-counter.agent.ts

\* CountdownState with an appending reducer on history.
CountdownState_AppendHistory == [number |-> "overwrite", history |-> "append"]

\* Annotation.Root({number, history}): no reducer is given, so both fields
\* are overwritten by a node's update.
CountdownState == [number |-> "overwrite", history |-> "overwrite"]

\* subtractFive returning the history it was given, without the new number.
subtractFive_NoAppend(state) ==
    LET newNumber == state.number - 5
    IN  [number |-> newNumber, history |-> state.history]

subtractFive(state) ==
    LET newNumber == state.number - 5
    IN  [number |-> newNumber, history |-> Append(state.history, newNumber)]

subtractOne(state) ==
    LET newNumber == state.number - 1
    IN  [number |-> newNumber, history |-> Append(state.history, newNumber)]

\* routeCountdown with its two branches swapped.
routeCountdown_Swapped(state) ==
    IF state.number > 10 THEN "subtract_one"
    ELSE IF state.number > 0 THEN "subtract_five"
    ELSE END

\* routeCountdown sending zero to the subtract-1 node.
routeCountdown_ZeroInclusive(state) ==
    IF state.number > 10 THEN "subtract_five"
    ELSE IF state.number >= 0 THEN "subtract_one"
    ELSE END

\* routeCountdown with the upper threshold taken inclusively.
routeCountdown_Inclusive(state) ==
    IF state.number >= 10 THEN "subtract_five"
    ELSE IF state.number > 0 THEN "subtract_one"
    ELSE END

\* routeCountdown returning a name that is no node of the graph.
routeCountdown_Typo(state) ==
    IF state.number > 10 THEN "subtract_five"
    ELSE IF state.number > 0 THEN "subtract_1"
    ELSE END

routeCountdown(state) ==
    IF state.number > 10 THEN "subtract_five"
    ELSE IF state.number > 0 THEN "subtract_one"
    ELSE END

\* The destinations declared with a destination the graph has no node for.
SimpleCounterDestinations_Typo ==
    {"subtract_five", "subtract_one", "subtract_1", END}

\* The destinations every addConditionalEdges call of the graph declares.
SimpleCounterDestinations == {"subtract_five", "subtract_one", END}

\* The node functions by the names addNode gives them; a name without a node
\* contributes no update.
SimpleCounterNodes(node, state) ==
    CASE node = "subtract_five" -> subtractFive(state)
      [] node = "subtract_one" -> subtractOne(state)
      [] OTHER -> Empty

\* The edges out of the two nodes evaluating the router on the state the node
\* was given, before its partial state was merged.
SimpleCounterEdge_StaleState(node) ==
    CASE node = START -> routeCountdown(CounterState)
      [] node = "subtract_five" ->
            routeCountdown([CounterState EXCEPT !.number = number + 5])
      [] node = "subtract_one" ->
            routeCountdown([CounterState EXCEPT !.number = number + 1])

\* The three conditional edges of the graph: every source routes through
\* routeCountdown.
SimpleCounterEdge(node) ==
    CASE node = START -> routeCountdown(CounterState)
      [] node = "subtract_five" -> routeCountdown(CounterState)
      [] node = "subtract_one" -> routeCountdown(CounterState)

SC_subtract_five ==
    /\ graph = "simple_counter"
    /\ cur # END
    /\ failure = "none"
    /\ SimpleCounterEdge(cur) = "subtract_five"
    /\ LET merged == merge(CountdownState, CounterState, subtractFive(CounterState)).state
       IN  /\ number' = merged.number
           /\ history' = merged.history
    /\ cur' = "subtract_five"
    /\ steps' = steps + 1
    /\ UNCHANGED <<graph, messages, input, invocation>>
    /\ UNCHANGED engineVars

SC_subtract_one ==
    /\ graph = "simple_counter"
    /\ cur # END
    /\ failure = "none"
    /\ SimpleCounterEdge(cur) = "subtract_one"
    /\ LET merged == merge(CountdownState, CounterState, subtractOne(CounterState)).state
       IN  /\ number' = merged.number
           /\ history' = merged.history
    /\ cur' = "subtract_one"
    /\ steps' = steps + 1
    /\ UNCHANGED <<graph, messages, input, invocation>>
    /\ UNCHANGED engineVars

SC_end ==
    /\ graph = "simple_counter"
    /\ cur # END
    /\ failure = "none"
    /\ SimpleCounterEdge(cur) = END
    /\ cur' = END
    /\ UNCHANGED <<graph, number, history, messages, steps, input, invocation>>
    /\ UNCHANGED engineVars

----------------------------------------------------------------------------
\* src/unnamed/part_001

\* CounterStateAnnotation with an appending reducer on history.
CounterStateAnnotation_AppendHistory ==
    [number |-> "overwrite", history |-> "append"]

\* Annotation.Root({number, history}) without reducers.
CounterStateAnnotation == [number |-> "overwrite", history |-> "overwrite"]

subtract5(state) ==
    LET newNumber == state.number - 5
    IN  [number |-> newNumber, history |-> Append(state.history, newNumber)]

\* subtract1 putting the new number in front of the history.
subtract1_Prepend(state) ==
    LET newNumber == state.number - 1
    IN  [number |-> newNumber, history |-> <<newNumber>> \o state.history]

subtract1(state) ==
    LET newNumber == state.number - 1
    IN  [number |-> newNumber, history |-> Append(state.history, newNumber)]

\* routingFunction with the upper threshold taken inclusively.
routingFunction_Inclusive(state) ==
    IF state.number >= 10 THEN "subtract5"
    ELSE IF state.number <= 10 /\ state.number > 0 THEN "subtract1"
    ELSE END

\* routingFunction with the upper threshold written 1 for 10.
routingFunction_Threshold1(state) ==
    IF state.number > 1 THEN "subtract5"
    ELSE IF state.number <= 10 /\ state.number > 0 THEN "subtract1"
    ELSE END

routingFunction(state) ==
    IF state.number > 10 THEN "subtract5"
    ELSE IF state.number <= 10 /\ state.number > 0 THEN "subtract1"
    ELSE END

\* The node functions by the names addNode gives them.
CountdownNodes(node, state) ==
    CASE node = "subtract5" -> subtract5(state)
      [] node = "subtract1" -> subtract1(state)
      [] OTHER -> Empty

CountdownEdge(node) ==
    CASE node = START -> routingFunction(CounterState)
      [] node = "subtract5" -> routingFunction(CounterState)
      [] node = "subtract1" -> routingFunction(CounterState)

CD_subtract5 ==
    /\ graph = "countdown"
    /\ cur # END
    /\ failure = "none"
    /\ CountdownEdge(cur) = "subtract5"
    /\ LET merged == merge(CounterStateAnnotation, CounterState, subtract5(CounterState)).state
       IN  /\ number' = merged.number
           /\ history' = merged.history
    /\ cur' = "subtract5"
    /\ steps' = steps + 1
    /\ UNCHANGED <<graph, messages, input, invocation>>
    /\ UNCHANGED engineVars

CD_subtract1 ==
    /\ graph = "countdown"
    /\ cur # END
    /\ failure = "none"
    /\ CountdownEdge(cur) = "subtract1"
    /\ LET merged == merge(CounterStateAnnotation, CounterState, subtract1(CounterState)).state
       IN  /\ number' = merged.number
           /\ history' = merged.history
    /\ cur' = "subtract1"
    /\ steps' = steps + 1
    /\ UNCHANGED <<graph, messages, input, invocation>>
    /\ UNCHANGED engineVars

CD_end ==
    /\ graph = "countdown"
    /\ cur # END
    /\ failure = "none"
    /\ CountdownEdge(cur) = END
    /\ cur' = END
    /\ UNCHANGED <<graph, number, history, messages, steps, input, invocation>>
    /\ UNCHANGED engineVars

----------------------------------------------------------------------------
\* Messages (MessagesAnnotation).  has_tool_calls says whether the message
\* object carries a tool_calls property at all; tool_calls is its list.

NoId == <<>>

Message(role, content) ==
    [role |-> role, content |-> content, has_tool_calls |-> FALSE,
     tool_calls |-> <<>>, tool_call_id |-> NoId]

SystemMessage(content) == Message("system", content)
HumanMessage(content) == Message("user", content)

\* A model reply; calls = <<>> with has = TRUE is an empty tool_calls list,
\* has = FALSE a reply without the property.
AIMessage(has, calls) ==
    [role |-> "assistant", content |-> "text", has_tool_calls |-> has,
     tool_calls |-> calls, tool_call_id |-> NoId]

ToolMessage(content, id) ==
    [role |-> "tool", content |-> content, has_tool_calls |-> FALSE,
     tool_calls |-> <<>>, tool_call_id |-> id]

\* A node returns its messages update as one message or as a list of them.
Single(m) == [kind |-> "single", value |-> m]
List(ms) == [kind |-> "list", value |-> ms]

\* The reducer of the messages field: the update is appended to the list.
messagesStateReducer(left, right) ==
    left \o (IF right.kind = "single" THEN <<right.value>> ELSE right.value)

MessagesState == [messages |-> messages]

\* Messages appended by the current invocation.
NewMessages == SubSeq(messages, Len(input.messages) + 1, Len(messages))

\* Model replies of the current invocation so far.
AgentTurns ==
    Cardinality({i \in 1..Len(NewMessages) : NewMessages[i].role = "assistant"})

\* What the bound model may answer: no tool_calls property, or a list of up to
\* MaxCalls calls drawn from `requests`, each with an id of its own.
ModelReplies(requests) ==
    {AIMessage(FALSE, <<>>)} \cup
    {AIMessage(TRUE,
               [k \in 1..Len(f) |->
                   [name |-> f[k].name, args |-> f[k].args,
                    id |-> <<Len(messages) + 1, k>>]]) :
        f \in UNION {[1..n -> requests] : n \in 0..MaxCalls}}

\* The tools of the three agent graphs.

\* src/unnamed/part_002
addTool(args) == args.a + args.b

\* subtractTool with its operands swapped.
subtractTool_Swapped(args) == args.b - args.a

subtractTool(args) == args.a - args.b

\* const tools = [addTool, subtractTool]; a name the list does not hold finds
\* no tool.
tools_calculator(name, args) ==
    CASE name = "add" -> addTool(args)
      [] name = "subtract" -> subtractTool(args)
      [] OTHER -> "undefined"

\* src/src/people-places-extractor.agent.ts
add(args) == args.number1 + args.number2

subtract(args) == args.number1 - args.number2

\* const tools = [add, subtract]
tools_calculator_tools(name, args) ==
    CASE name = "add" -> add(args)
      [] name = "subtract" -> subtract(args)
      [] OTHER -> "undefined"

\* src/src/browser-tool.agent.ts
\* new TavilySearch({ maxResults: 3 }): the external search, of which the
\* graph only passes the result on.
maxResults == 3

TavilySearch(args) == [query |-> args.query, results |-> maxResults]

tools_browser(name, args) ==
    CASE name = "tavily_search" -> TavilySearch(args)
      [] OTHER -> "undefined"

\* src/unnamed/part_003: const tools = [searchTool]
tools_web_search(name, args) ==
    CASE name = "tavily_search" -> TavilySearch(args)
      [] OTHER -> "undefined"

\* The tool list of part_002 with a third tool registered.
ToolNames_WithMultiply(tools) ==
    CASE tools = "calculator" -> {"add", "subtract", "multiply"}
      [] tools = "calculator_tools" -> {"add", "subtract"}
      [] tools = "browser_tool" -> {"tavily_search"}
      [] tools = "web_search" -> {"tavily_search"}

\* The names of the tools each tool list registers.
ToolNames(tools) ==
    CASE tools = "calculator" -> {"add", "subtract"}
      [] tools = "calculator_tools" -> {"add", "subtract"}
      [] tools = "browser_tool" -> {"tavily_search"}
      [] tools = "web_search" -> {"tavily_search"}

\* The tool list a tool node was built from, looked up by the name of the call.
InvokeTool(tools, name, args) ==
    CASE tools = "calculator" -> tools_calculator(name, args)
      [] tools = "calculator_tools" -> tools_calculator_tools(name, args)
      [] tools = "browser_tool" -> tools_browser(name, args)
      [] tools = "web_search" -> tools_web_search(name, args)

\* The prebuilt tool node: one tool message per call of the last message, in
\* the order of the calls, each carrying the id of its call.
ToolNode(tools, state) ==
    LET calls == Last(state.messages).tool_calls
    IN  [messages |->
            List([k \in 1..Len(calls) |->
                    ToolMessage(InvokeTool(tools, calls[k].name, calls[k].args),
                                calls[k].id)])]

\* The calls of the last message that name no registered tool.
UnknownTools(tools, state) ==
    LET calls == Last(state.messages).tool_calls
    IN  {k \in 1..Len(calls) : calls[k].name \notin ToolNames(tools)}

\* The tools node of a graph runs: the dispatch fails on a call to a tool that
\* is not registered, and otherwise the result messages are merged.
RunToolNode(tools) ==
    IF UnknownTools(tools, MessagesState) # {}
    THEN /\ failure' = "UnknownToolError"
         /\ UNCHANGED <<messages, cur, steps>>
    ELSE /\ messages' = messagesStateReducer(
                            messages, ToolNode(tools, MessagesState).messages)
         /\ cur' = "tools"
         /\ steps' = steps + 1
         /\ UNCHANGED failure

\* The external call of a node (the model, the search) fails.
FailCall ==
    /\ failure' = "ExternalCallFailure"
    /\ UNCHANGED <<graph, cur, number, history, messages, steps, input,
                   invocation, process, fields, inflight, returned, routed>>

----------------------------------------------------------------------------
\* src/unnamed/part_002

callAgent(state, response) == [messages |-> Single(response)]

\* routeAfterAgent without the length test: an empty list routes to tools.
routeAfterAgent_NoLength(state) ==
    LET lastMessage == Last(state.messages)
    IN  IF lastMessage.has_tool_calls THEN "tools" ELSE END

routeAfterAgent(state) ==
    LET lastMessage == Last(state.messages)
    IN  IF lastMessage.has_tool_calls /\ Len(lastMessage.tool_calls) # 0
        THEN "tools"
        ELSE END

CalculatorEdge(node) ==
    CASE node = START -> "agent"
      [] node = "agent" -> routeAfterAgent(MessagesState)
      [] node = "tools" -> "agent"

\* What the model may ask of the calculator tools.
CalculatorRequests ==
    {[name |-> "add", args |-> [a |-> 2, b |-> 3]],
     [name |-> "subtract", args |-> [a |-> 10, b |-> 4]],
     [name |-> "multiply", args |-> [a |-> 2, b |-> 3]]}

CA_agent ==
    /\ graph = "calculator"
    /\ cur # END
    /\ failure = "none"
    /\ CalculatorEdge(cur) = "agent"
    /\ AgentTurns < MaxTurns
    /\ \E response \in ModelReplies(CalculatorRequests) :
          messages' = messagesStateReducer(
                          messages, callAgent(MessagesState, response).messages)
    /\ cur' = "agent"
    /\ steps' = steps + 1
    /\ UNCHANGED <<graph, number, history, input, invocation>>
    /\ UNCHANGED engineVars

CA_tools ==
    /\ graph = "calculator"
    /\ cur # END
    /\ failure = "none"
    /\ CalculatorEdge(cur) = "tools"
    /\ RunToolNode("calculator")
    /\ UNCHANGED <<graph, number, history, input, invocation, process, fields,
                   inflight, returned, routed>>

\* The model call of the agent node fails.
CA_agent_fails ==
    /\ graph = "calculator"
    /\ cur # END
    /\ failure = "none"
    /\ CalculatorEdge(cur) = "agent"
    /\ FailCall

CA_end ==
    /\ graph = "calculator"
    /\ cur # END
    /\ failure = "none"
    /\ CalculatorEdge(cur) = END
    /\ cur' = END
    /\ UNCHANGED <<graph, number, history, messages, steps, input, invocation>>
    /\ UNCHANGED engineVars

----------------------------------------------------------------------------
\* src/src/people-places-extractor.agent.ts, lines 221-355 (calculator tools)


\* shouldContinue ending the run once two replies are in the list.
shouldContinue_Capped(state) ==
    LET lastMessage == Last(state.messages)
        replies == {i \in 1..Len(state.messages) :
                       state.messages[i].role = "assistant"}
    IN  IF Cardinality(replies) >= 2 THEN END
        ELSE IF lastMessage.has_tool_calls /\ Len(lastMessage.tool_calls) # 0
        THEN "tools"
        ELSE END

shouldContinue(state) ==
    LET lastMessage == Last(state.messages)
    IN  IF lastMessage.has_tool_calls /\ Len(lastMessage.tool_calls) # 0
        THEN "tools"
        ELSE END

\* callModel returning the messages it was given together with the reply.
callModel_WholeList(state, response) ==
    [messages |-> List(Append(state.messages, response))]

callModel(state, response) == [messages |-> Single(response)]

CalculatorToolsEdge(node) ==
    CASE node = START -> "agent"
      [] node = "agent" -> shouldContinue(MessagesState)
      [] node = "tools" -> "agent"

CalculatorToolsRequests ==
    {[name |-> "add", args |-> [number1 |-> 2, number2 |-> 3]],
     [name |-> "subtract", args |-> [number1 |-> 10, number2 |-> 4]]}

CT_agent ==
    /\ graph = "calculator_tools"
    /\ cur # END
    /\ failure = "none"
    /\ CalculatorToolsEdge(cur) = "agent"
    /\ AgentTurns < MaxTurns
    /\ \E response \in ModelReplies(CalculatorToolsRequests) :
          messages' = messagesStateReducer(
                          messages, callModel(MessagesState, response).messages)
    /\ cur' = "agent"
    /\ steps' = steps + 1
    /\ UNCHANGED <<graph, number, history, input, invocation>>
    /\ UNCHANGED engineVars

CT_tools ==
    /\ graph = "calculator_tools"
    /\ cur # END
    /\ failure = "none"
    /\ CalculatorToolsEdge(cur) = "tools"
    /\ RunToolNode("calculator_tools")
    /\ UNCHANGED <<graph, number, history, input, invocation, process, fields,
                   inflight, returned, routed>>

\* The model call of the agent node fails.
CT_agent_fails ==
    /\ graph = "calculator_tools"
    /\ cur # END
    /\ failure = "none"
    /\ CalculatorToolsEdge(cur) = "agent"
    /\ FailCall

CT_end ==
    /\ graph = "calculator_tools"
    /\ cur # END
    /\ failure = "none"
    /\ CalculatorToolsEdge(cur) = END
    /\ cur' = END
    /\ UNCHANGED <<graph, number, history, messages, steps, input, invocation>>
    /\ UNCHANGED engineVars

----------------------------------------------------------------------------
\* src/src/browser-tool.agent.ts

browser_shouldContinue(state) ==
    LET lastMessage == Last(state.messages)
    IN  IF (IF lastMessage.has_tool_calls
            THEN Len(lastMessage.tool_calls) # 0
            ELSE FALSE)
        THEN "tools"
        ELSE END

\* callModel returning the messages it was given together with the reply.
browser_callModel_WholeList(state, response) ==
    [messages |-> List(Append(state.messages, response))]

browser_callModel(state, response) == [messages |-> List(<<response>>)]

\* The graph with the edge out of the tools node leading to END.
BrowserEdge_ToolsToEnd(node) ==
    CASE node = START -> "agent"
      [] node = "tools" -> END
      [] node = "agent" -> browser_shouldContinue(MessagesState)

BrowserEdge(node) ==
    CASE node = START -> "agent"
      [] node = "tools" -> "agent"
      [] node = "agent" -> browser_shouldContinue(MessagesState)

BrowserRequests ==
    {[name |-> "tavily_search", args |-> [query |-> "weather"]],
     [name |-> "calculator", args |-> [query |-> "2 + 3"]]}

BT_agent ==
    /\ graph = "browser_tool"
    /\ cur # END
    /\ failure = "none"
    /\ BrowserEdge(cur) = "agent"
    /\ AgentTurns < MaxTurns
    /\ \E response \in ModelReplies(BrowserRequests) :
          messages' = messagesStateReducer(
                          messages,
                          browser_callModel(MessagesState, response).messages)
    /\ cur' = "agent"
    /\ steps' = steps + 1
    /\ UNCHANGED <<graph, number, history, input, invocation>>
    /\ UNCHANGED engineVars

BT_tools ==
    /\ graph = "browser_tool"
    /\ cur # END
    /\ failure = "none"
    /\ BrowserEdge(cur) = "tools"
    /\ RunToolNode("browser_tool")
    /\ UNCHANGED <<graph, number, history, input, invocation, process, fields,
                   inflight, returned, routed>>

\* The model call of the agent node fails.
BT_agent_fails ==
    /\ graph = "browser_tool"
    /\ cur # END
    /\ failure = "none"
    /\ BrowserEdge(cur) = "agent"
    /\ FailCall

BT_end ==
    /\ graph = "browser_tool"
    /\ cur # END
    /\ failure = "none"
    /\ BrowserEdge(cur) = END
    /\ cur' = END
    /\ UNCHANGED <<graph, number, history, messages, steps, input, invocation>>
    /\ UNCHANGED engineVars

\* The search call of the tools node fails.
BT_tools_fails ==
    /\ graph = "browser_tool"
    /\ cur # END
    /\ failure = "none"
    /\ BrowserEdge(cur) = "tools"
    /\ UnknownTools("browser_tool", MessagesState) = {}
    /\ FailCall

\* main: the second invoke, on the first run's final messages and a new
\* question.
BT_main_nextState ==
    /\ graph = "browser_tool"
    /\ cur = END
    /\ invocation = 1
    /\ messages' = messages \o <<HumanMessage("what about ny")>>
    /\ input' = [input EXCEPT !.messages = messages']
    /\ cur' = START
    /\ steps' = 0
    /\ invocation' = 2
    /\ UNCHANGED <<graph, number, history>>
    /\ UNCHANGED engineVars

----------------------------------------------------------------------------
\* src/unnamed/part_003, lines 147-269 (web search agent)

web_callAgent(state, response) == [messages |-> List(<<response>>)]

\* routeAfterAgent with its test inverted.
web_routeAfterAgent_Inverted(state) ==
    LET lastMessage == Last(state.messages)
    IN  IF ~(IF lastMessage.has_tool_calls
             THEN Len(lastMessage.tool_calls) # 0
             ELSE FALSE)
        THEN "tools"
        ELSE END

web_routeAfterAgent(state) ==
    LET lastMessage == Last(state.messages)
    IN  IF (IF lastMessage.has_tool_calls
            THEN Len(lastMessage.tool_calls) # 0
            ELSE FALSE)
        THEN "tools"
        ELSE END

WebSearchEdge(node) ==
    CASE node = START -> "agent"
      [] node = "tools" -> "agent"
      [] node = "agent" -> web_routeAfterAgent(MessagesState)

WebSearchRequests ==
    {[name |-> "tavily_search", args |-> [query |-> "weather"]],
     [name |-> "calculator", args |-> [query |-> "2 + 3"]]}

WS_agent ==
    /\ graph = "web_search"
    /\ cur # END
    /\ failure = "none"
    /\ WebSearchEdge(cur) = "agent"
    /\ AgentTurns < MaxTurns
    /\ \E response \in ModelReplies(WebSearchRequests) :
          messages' = messagesStateReducer(
                          messages,
                          web_callAgent(MessagesState, response).messages)
    /\ cur' = "agent"
    /\ steps' = steps + 1
    /\ UNCHANGED <<graph, number, history, input, invocation>>
    /\ UNCHANGED engineVars

WS_tools ==
    /\ graph = "web_search"
    /\ cur # END
    /\ failure = "none"
    /\ WebSearchEdge(cur) = "tools"
    /\ RunToolNode("web_search")
    /\ UNCHANGED <<graph, number, history, input, invocation, process, fields,
                   inflight, returned, routed>>

\* The model call of the agent node fails.
WS_agent_fails ==
    /\ graph = "web_search"
    /\ cur # END
    /\ failure = "none"
    /\ WebSearchEdge(cur) = "agent"
    /\ FailCall

\* The search call of the tools node fails.
WS_tools_fails ==
    /\ graph = "web_search"
    /\ cur # END
    /\ failure = "none"
    /\ WebSearchEdge(cur) = "tools"
    /\ UnknownTools("web_search", MessagesState) = {}
    /\ FailCall

WS_end ==
    /\ graph = "web_search"
    /\ cur # END
    /\ failure = "none"
    /\ WebSearchEdge(cur) = END
    /\ cur' = END
    /\ UNCHANGED <<graph, number, history, messages, steps, input, invocation>>
    /\ UNCHANGED engineVars

\* main: the second invoke, on state1.messages and a new question.
WS_main_state2 ==
    /\ graph = "web_search"
    /\ cur = END
    /\ invocation = 1
    /\ messages' = messages \o <<HumanMessage("what about ny")>>
    /\ input' = [input EXCEPT !.messages = messages']
    /\ cur' = START
    /\ steps' = 0
    /\ invocation' = 2
    /\ UNCHANGED <<graph, number, history>>
    /\ UNCHANGED engineVars

----------------------------------------------------------------------------
\* The extraction graphs.  Their nodes await an external call or a timer, so
\* a node is started (it reads the state) and completed (its partial state is
\* merged) in two steps.  A node may start once the source of one of its
\* edges has completed; nodes whose sources have completed run in parallel.

\* What the structured-output model may return for a text.
PersonNames == {"Alice", "Bob"}
PlaceNames == {"Paris"}
NameLists(names) == UNION {[1..n -> names] : n \in 0..MaxNames}

isEmpty(state, field) == field \notin DOMAIN state \/ state[field] = <<>>

Started(node) == node \in DOMAIN inflight \/ node \in DOMAIN returned

\* A node of the graph with these edges may start now.
CanStart(edges, node) ==
    /\ ~Started(node)
    /\ \E e \in edges :
          /\ e[2] = node
          /\ (e[1] = START \/ e[1] \in DOMAIN returned)

\* Every edge into END has a completed source and nothing is running.
CanEnd(edges) ==
    /\ DOMAIN inflight = {}
    /\ \A e \in edges : e[2] = END => e[1] \in DOMAIN returned

StartNode(node) ==
    /\ inflight' = Put(inflight, node, fields)
    /\ UNCHANGED <<graph, cur, number, history, messages, steps, input,
                   invocation, failure, process, fields, returned, routed>>

\* The node completes with this partial state, which is merged.
CompleteNode(schema, node, partial) ==
    /\ fields' = merge(schema, fields, partial).state
    /\ inflight' = Drop(inflight, node)
    /\ returned' = Put(returned, node, partial)
    /\ cur' = node
    /\ steps' = steps + 1
    /\ UNCHANGED <<graph, number, history, messages, input, invocation,
                   failure, process, routed>>

\* The node's external call fails: the invocation is aborted.
FailNode(node) ==
    /\ failure' = "ExternalCallFailure"
    /\ inflight' = Drop(inflight, node)
    /\ UNCHANGED <<graph, cur, number, history, messages, steps, input,
                   invocation, process, fields, returned, routed>>

EndGraph ==
    /\ cur' = END
    /\ UNCHANGED <<graph, number, history, messages, steps, input, invocation,
                   failure, process, fields, inflight, returned, routed>>

----------------------------------------------------------------------------
\* src/src/people-extractor.agent.ts

\* PeopleExtractorState declaring the field mappedPeople as well.
PeopleExtractorState_MappedPeople ==
    [text |-> "overwrite", names |-> "overwrite", people |-> "overwrite",
     mappedPeople |-> "overwrite"]

PeopleExtractorState ==
    [text |-> "overwrite", names |-> "overwrite", people |-> "overwrite"]

extractNames(state, result) == [names |-> result.names]

pe_mapToPeople(state) ==
    IF isEmpty(state, "names")
    THEN [people |-> <<>>]
    ELSE [people |-> [index \in 1..Len(state.names) |->
                         [id |-> index, name |-> state.names[index]]]]

\* The graph with map_to_people wired to START as well.
PeopleExtractorEdges_MapFromStart ==
    {<<START, "extract_names">>,
     <<START, "map_to_people">>,
     <<"map_to_people", END>>}

PeopleExtractorEdges ==
    {<<START, "extract_names">>,
     <<"extract_names", "map_to_people">>,
     <<"map_to_people", END>>}

PE_extract_names_start ==
    /\ graph = "people_extractor"
    /\ cur # END
    /\ failure = "none"
    /\ CanStart(PeopleExtractorEdges, "extract_names")
    /\ StartNode("extract_names")

PE_extract_names ==
    /\ graph = "people_extractor"
    /\ failure = "none"
    /\ "extract_names" \in DOMAIN inflight
    /\ \E names \in NameLists(PersonNames) :
          CompleteNode(PeopleExtractorState, "extract_names",
                       extractNames(inflight["extract_names"], [names |-> names]))

PE_extract_names_fails ==
    /\ graph = "people_extractor"
    /\ failure = "none"
    /\ "extract_names" \in DOMAIN inflight
    /\ FailNode("extract_names")

PE_map_to_people_start ==
    /\ graph = "people_extractor"
    /\ cur # END
    /\ failure = "none"
    /\ CanStart(PeopleExtractorEdges, "map_to_people")
    /\ StartNode("map_to_people")

PE_map_to_people ==
    /\ graph = "people_extractor"
    /\ failure = "none"
    /\ "map_to_people" \in DOMAIN inflight
    /\ CompleteNode(PeopleExtractorState, "map_to_people",
                    pe_mapToPeople(inflight["map_to_people"]))

PE_end ==
    /\ graph = "people_extractor"
    /\ cur # END
    /\ failure = "none"
    /\ CanEnd(PeopleExtractorEdges)
    /\ EndGraph

----------------------------------------------------------------------------
\* src/src/people-places-extractor.agent.ts, lines 1-219

PeoplePlacesState ==
    [text |-> "overwrite", names |-> "overwrite", people |-> "overwrite",
     place_names |-> "overwrite", places |-> "overwrite"]

extractPeopleNames(state, result) == [names |-> result.names]

\* extractPlaceNames returning its list under the field of the other pipeline.
extractPlaceNames_WritesNames(state, result) == [names |-> result.place_names]

extractPlaceNames(state, result) == [place_names |-> result.place_names]

mapToPeople(state) ==
    IF isEmpty(state, "names")
    THEN [people |-> <<>>]
    ELSE [people |-> [index \in 1..Len(state.names) |->
                         [id |-> index, name |-> state.names[index]]]]

\* mapToPlaces returning the state it was given with places added.
mapToPlaces_SpreadsState(state) ==
    IF isEmpty(state, "place_names")
    THEN Put(state, "places", <<>>)
    ELSE Put(state, "places",
             [index \in 1..Len(state.place_names) |->
                 [id |-> index, name |-> state.place_names[index]]])

mapToPlaces(state) ==
    IF isEmpty(state, "place_names")
    THEN [places |-> <<>>]
    ELSE [places |-> [index \in 1..Len(state.place_names) |->
                         [id |-> index, name |-> state.place_names[index]]]]

\* The graph with map_to_people wired to START instead of its extraction node.
PeoplePlacesEdges_MapFromStart ==
    {<<START, "extract_people_names">>,
     <<START, "extract_place_names">>,
     <<START, "map_to_people">>,
     <<"extract_place_names", "map_to_places">>,
     <<"map_to_people", END>>,
     <<"map_to_places", END>>}

PeoplePlacesEdges ==
    {<<START, "extract_people_names">>,
     <<START, "extract_place_names">>,
     <<"extract_people_names", "map_to_people">>,
     <<"extract_place_names", "map_to_places">>,
     <<"map_to_people", END>>,
     <<"map_to_places", END>>}

\* The two pipelines of the graph.
PeoplePipeline == {"extract_people_names", "map_to_people"}
PlacesPipeline == {"extract_place_names", "map_to_places"}

PP_extract_people_names_start ==
    /\ graph = "people_places"
    /\ cur # END
    /\ failure = "none"
    /\ CanStart(PeoplePlacesEdges, "extract_people_names")
    /\ StartNode("extract_people_names")

PP_extract_people_names ==
    /\ graph = "people_places"
    /\ failure = "none"
    /\ "extract_people_names" \in DOMAIN inflight
    /\ \E names \in NameLists(PersonNames) :
          CompleteNode(PeoplePlacesState, "extract_people_names",
                       extractPeopleNames(inflight["extract_people_names"],
                                          [names |-> names]))

PP_extract_people_names_fails ==
    /\ graph = "people_places"
    /\ failure = "none"
    /\ "extract_people_names" \in DOMAIN inflight
    /\ FailNode("extract_people_names")

PP_extract_place_names_start ==
    /\ graph = "people_places"
    /\ cur # END
    /\ failure = "none"
    /\ CanStart(PeoplePlacesEdges, "extract_place_names")
    /\ StartNode("extract_place_names")

PP_extract_place_names ==
    /\ graph = "people_places"
    /\ failure = "none"
    /\ "extract_place_names" \in DOMAIN inflight
    /\ \E names \in NameLists(PlaceNames) :
          CompleteNode(PeoplePlacesState, "extract_place_names",
                       extractPlaceNames(inflight["extract_place_names"],
                                         [place_names |-> names]))

PP_extract_place_names_fails ==
    /\ graph = "people_places"
    /\ failure = "none"
    /\ "extract_place_names" \in DOMAIN inflight
    /\ FailNode("extract_place_names")

PP_map_to_people_start ==
    /\ graph = "people_places"
    /\ cur # END
    /\ failure = "none"
    /\ CanStart(PeoplePlacesEdges, "map_to_people")
    /\ StartNode("map_to_people")

PP_map_to_people ==
    /\ graph = "people_places"
    /\ failure = "none"
    /\ "map_to_people" \in DOMAIN inflight
    /\ CompleteNode(PeoplePlacesState, "map_to_people",
                    mapToPeople(inflight["map_to_people"]))

PP_map_to_places_start ==
    /\ graph = "people_places"
    /\ cur # END
    /\ failure = "none"
    /\ CanStart(PeoplePlacesEdges, "map_to_places")
    /\ StartNode("map_to_places")

PP_map_to_places ==
    /\ graph = "people_places"
    /\ failure = "none"
    /\ "map_to_places" \in DOMAIN inflight
    /\ CompleteNode(PeoplePlacesState, "map_to_places",
                    mapToPlaces(inflight["map_to_places"]))

PP_end ==
    /\ graph = "people_places"
    /\ cur # END
    /\ failure = "none"
    /\ CanEnd(PeoplePlacesEdges)
    /\ EndGraph

----------------------------------------------------------------------------
\* src/unnamed/part_003, lines 1-146

\* interface AppState { text; names?; people? }
AppState ==
    [text |-> "overwrite", names |-> "overwrite", people |-> "overwrite"]

part003_extractNames(state, result) == [names |-> result.names]

\* namesToPeople numbering the people from 0.
namesToPeople_FromZero(state) ==
    IF isEmpty(state, "names")
    THEN [people |-> <<>>]
    ELSE [people |-> [i \in 1..Len(state.names) |->
                         [id |-> i - 1, name |-> state.names[i]]]]

\* map(names, (name, i) => ({ id: i + 1, name })): i counts from 0, the
\* positions of the sequence from 1.
namesToPeople(state) ==
    IF isEmpty(state, "names")
    THEN [people |-> <<>>]
    ELSE [people |-> [i \in 1..Len(state.names) |->
                         [id |-> (i - 1) + 1, name |-> state.names[i]]]]

NamesToPeopleEdges ==
    {<<START, "extractor">>,
     <<"extractor", "mapper">>,
     <<"mapper", END>>}

NP_extractor_start ==
    /\ graph = "names_to_people"
    /\ cur # END
    /\ failure = "none"
    /\ CanStart(NamesToPeopleEdges, "extractor")
    /\ StartNode("extractor")

NP_extractor ==
    /\ graph = "names_to_people"
    /\ failure = "none"
    /\ "extractor" \in DOMAIN inflight
    /\ \E names \in NameLists(PersonNames) :
          CompleteNode(AppState, "extractor",
                       part003_extractNames(inflight["extractor"],
                                            [names |-> names]))

NP_extractor_fails ==
    /\ graph = "names_to_people"
    /\ failure = "none"
    /\ "extractor" \in DOMAIN inflight
    /\ FailNode("extractor")

NP_mapper_start ==
    /\ graph = "names_to_people"
    /\ cur # END
    /\ failure = "none"
    /\ CanStart(NamesToPeopleEdges, "mapper")
    /\ StartNode("mapper")

NP_mapper ==
    /\ graph = "names_to_people"
    /\ failure = "none"
    /\ "mapper" \in DOMAIN inflight
    /\ CompleteNode(AppState, "mapper", namesToPeople(inflight["mapper"]))

NP_end ==
    /\ graph = "names_to_people"
    /\ cur # END
    /\ failure = "none"
    /\ CanEnd(NamesToPeopleEdges)
    /\ EndGraph

----------------------------------------------------------------------------
\* The Graph Engine on node functions and routers that are inputs of the run.
\* The schema and the wiring are those of a source graph; what a node returns,
\* or what the router answers, is any value of a small set.  One action is one
\* step of the engine: resolve the edge out of `cur`, stop at END, otherwise
\* invoke the destination node and merge what it returns.

\* engine_nodes: the schema and edges of people-extractor, any node functions.
NodePartials ==
    {[names |-> <<"Alice">>],
     [people |-> <<>>],
     [mappedPeople |-> <<[id |-> 1, person |-> "Alice"]>>],
     [names |-> <<"Bob">>, mappedPeople |-> <<>>]}

\* The destination of the fixed edge out of a node.
FixedEdge(edges, node) == (CHOOSE e \in edges : e[1] = node)[2]

GE_node ==
    /\ graph = "engine_nodes"
    /\ cur # END
    /\ failure = "none"
    /\ FixedEdge(PeopleExtractorEdges, cur) # END
    /\ LET dest == FixedEdge(PeopleExtractorEdges, cur)
       IN  \E partial \in NodePartials :
              LET merged == merge(PeopleExtractorState, fields, partial)
              IN  /\ fields' = merged.state
                  /\ returned' = Put(returned, dest, partial)
                  /\ failure' = IF merged.ok THEN "none" ELSE "SchemaViolation"
                  /\ cur' = IF merged.ok THEN dest ELSE cur
                  /\ steps' = steps + 1
    /\ UNCHANGED <<graph, number, history, messages, input, invocation,
                   process, inflight, routed>>

GE_end ==
    /\ graph = "engine_nodes"
    /\ cur # END
    /\ failure = "none"
    /\ FixedEdge(PeopleExtractorEdges, cur) = END
    /\ EndGraph

\* engine_router: the schema, nodes and declared destinations of
\* simple-counter, any router.
RouterAnswers == {"subtract_five", "subtract_one", "subtract_1", END}

GE_route ==
    /\ graph = "engine_router"
    /\ cur # END
    /\ failure = "none"
    /\ \E dest \in RouterAnswers :
          /\ routed' = dest
          /\ IF dest \notin SimpleCounterDestinations
             THEN /\ failure' = "RoutingError"
                  /\ UNCHANGED <<cur, number, history, steps>>
             ELSE IF dest = END
             THEN /\ cur' = END
                  /\ UNCHANGED <<failure, number, history, steps>>
             ELSE /\ steps < MaxSteps
                  /\ LET merged ==
                         merge(CountdownState, CounterState,
                               SimpleCounterNodes(dest, CounterState)).state
                     IN  /\ number' = merged.number
                         /\ history' = merged.history
                  /\ cur' = dest
                  /\ steps' = steps + 1
                  /\ UNCHANGED failure
    /\ UNCHANGED <<graph, messages, input, invocation, process, fields,
                   inflight, returned>>

----------------------------------------------------------------------------
InitCountdown ==
    /\ graph \in CountdownGraphs
    /\ number \in StartNumbers
    /\ history \in InitialHistories
    /\ messages = <<>>

\* What each main hands to invoke.
InitialMessages(g) ==
    CASE g = "calculator" ->
            <<SystemMessage("Use the calculator tools"), HumanMessage("problem")>>
      [] g = "calculator_tools" ->
            <<SystemMessage("Use the tools"), HumanMessage("problem")>>
      [] g = "browser_tool" ->
            <<HumanMessage("what is the weather in sf")>>
      [] g = "web_search" ->
            <<HumanMessage("what is the weather in sf")>>

InitAgent ==
    /\ graph \in AgentGraphs
    /\ messages = InitialMessages(graph)
    /\ number = 0
    /\ history = <<>>

\* main: const input = { text: ... }
InitExtraction ==
    /\ graph \in ExtractionGraphs
    /\ fields = [text |-> "The team includes Alice, Bob"]
    /\ number = 0
    /\ history = <<>>
    /\ messages = <<>>

EngineGraphs == {"engine_nodes", "engine_router"}

\* An engine run starts from the input of the graph whose schema it uses.
InitEngine ==
    /\ graph \in EngineGraphs
    /\ fields = IF graph = "engine_nodes"
                THEN [text |-> "The team includes Alice, Bob"]
                ELSE Empty
    /\ number = IF graph = "engine_router" THEN startNumber ELSE 0
    /\ history = <<>>
    /\ messages = <<>>

Running == [state |-> "running", code |-> 0, logged |-> "none"]

\* main() resolves after its last invoke: the results are printed and the
\* process ends by itself.
main_returns ==
    /\ process.state = "running"
    /\ failure = "none"
    /\ cur = END
    /\ (graph \in {"browser_tool", "web_search"}) => (invocation = 2)
    /\ process' = [state |-> "exited", code |-> 0, logged |-> "result"]
    /\ UNCHANGED <<graph, cur, number, history, messages, steps, input,
                   invocation, failure, fields, inflight, returned, routed>>

\* The catch handler without its process.exit(1).
main_catch_NoExit ==
    /\ failure # "none"
    /\ process.state = "running"
    /\ process.logged = "none"
    /\ process' = [state |-> "running", code |-> 0, logged |-> failure]
    /\ UNCHANGED <<graph, cur, number, history, messages, steps, input,
                   invocation, failure, fields, inflight, returned, routed>>

\* main().catch((error) => { console.error(...); process.exit(1); })
main_catch ==
    /\ failure # "none"
    /\ process.state = "running"
    /\ process' = [state |-> "exited", code |-> 1, logged |-> failure]
    /\ UNCHANGED <<graph, cur, number, history, messages, steps, input,
                   invocation, failure, fields, inflight, returned, routed>>

Init ==
    /\ cur = START
    /\ steps = 0
    /\ invocation = 1
    /\ failure = "none"
    /\ process = Running
    /\ inflight = Empty
    /\ returned = Empty
    /\ routed = "none"
    /\ \/ InitCountdown /\ fields = Empty
       \/ InitAgent /\ fields = Empty
       \/ InitExtraction
       \/ InitEngine
    /\ input = [number |-> number, history |-> history, messages |-> messages,
                fields |-> fields]

Next ==
    \/ SC_subtract_five
    \/ SC_subtract_one
    \/ SC_end
    \/ CD_subtract5
    \/ CD_subtract1
    \/ CD_end
    \/ CA_agent
    \/ CA_tools
    \/ CA_end
    \/ CT_agent
    \/ CT_tools
    \/ CT_end
    \/ BT_agent
    \/ BT_tools
    \/ BT_end
    \/ BT_main_nextState
    \/ CA_agent_fails
    \/ CT_agent_fails
    \/ BT_agent_fails
    \/ BT_tools_fails
    \/ WS_agent
    \/ WS_tools
    \/ WS_agent_fails
    \/ WS_tools_fails
    \/ WS_end
    \/ WS_main_state2
    \/ PE_extract_names_start
    \/ PE_extract_names
    \/ PE_extract_names_fails
    \/ PE_map_to_people_start
    \/ PE_map_to_people
    \/ PE_end
    \/ PP_extract_people_names_start
    \/ PP_extract_people_names
    \/ PP_extract_people_names_fails
    \/ PP_extract_place_names_start
    \/ PP_extract_place_names
    \/ PP_extract_place_names_fails
    \/ PP_map_to_people_start
    \/ PP_map_to_people
    \/ PP_map_to_places_start
    \/ PP_map_to_places
    \/ PP_end
    \/ NP_extractor_start
    \/ NP_extractor
    \/ NP_extractor_fails
    \/ NP_mapper_start
    \/ NP_mapper
    \/ NP_end
    \/ GE_node
    \/ GE_end
    \/ GE_route
    \/ main_returns
    \/ main_catch

Spec == Init /\ [][Next]_vars

\* The scheduling the engine gives a run: it always takes the next step of the
\* invocation it is running.
FairSpec == Spec /\ WF_vars(Next)

----------------------------------------------------------------------------
\* Countdown properties.

CeilDiv(a, b) == (a + b - 1) \div b

\* The run main starts: number = startNumber, history = [].
MainCountdownRun ==
    /\ graph \in CountdownGraphs
    /\ input.number = startNumber
    /\ input.history = <<>>

Expected57 == <<52, 47, 42, 37, 32, 27, 22, 17, 12, 7, 6, 5, 4, 3, 2, 1, 0>>

\* C1 as stated: the countdown started at 57 with an empty history ends with
\* number = 0 and a history of length 16.
C1_FinalLength16 ==
    (MainCountdownRun /\ cur = END) => (number = 0 /\ Len(history) = 16)

\* C1, amended: the countdown started at 57 with an empty history ends with
\* number = 0 and a history of length 17 (ten subtract-5 steps 57 -> 7, then
\* seven subtract-1 steps 7 -> 0).
C1_FinalLength17 ==
    (MainCountdownRun /\ cur = END) => (number = 0 /\ Len(history) = 17)

C1_Witness ==
    MainCountdownRun /\ cur = END /\ number = 0 /\ Len(history) = 17

\* C2: in the run started at 57 the successive values of number are exactly
\* 52, 47, ..., 12, 7, 6, ..., 1, 0 in that order; the history lists the values
\* produced so far, and at END it lists exactly all of them.
C2_Trace57 ==
    MainCountdownRun =>
        /\ steps <= Len(Expected57)
        /\ number = (IF steps = 0 THEN startNumber ELSE Expected57[steps])
        /\ history = SubSeq(Expected57, 1, steps)
        /\ (cur = END => history = Expected57)
        /\ (steps = Len(Expected57) => routeCountdown(CounterState) = END
                                       /\ routingFunction(CounterState) = END)

C2_Witness ==
    MainCountdownRun /\ cur = END /\ history = Expected57 /\ number = 0

\* C3 as stated: for every start N > 10 the run ends after exactly
\* ceil((N-10)/5) + 10 node executions.
C3_StepsCeilPlus10 ==
    (graph \in CountdownGraphs /\ cur = END /\ input.number > 10) =>
        steps = CeilDiv(input.number - 10, 5) + 10

\* C3, amended: for every start N > 10 the run ends after exactly
\* k + (N - 5k) node executions, where k = ceil((N-10)/5) is the number of
\* subtract-5 steps and N - 5k (between 6 and 10) the number of subtract-1
\* steps; this is ceil((N-10)/5) + 10 only when N is a multiple of 5.
C3_StepsExact ==
    (graph \in CountdownGraphs /\ cur = END /\ input.number > 10) =>
        LET k == CeilDiv(input.number - 10, 5)
            r == input.number - 5 * k
        IN  /\ r \in 6..10
            /\ steps = k + r
            /\ (steps = k + 10 <=> input.number % 5 = 0)

C3_Witness ==
    /\ graph \in CountdownGraphs
    /\ cur = END
    /\ input.number = 11
    /\ steps = 7

\* C4: the router is a total threshold function of number: the engine's next
\* node is the subtract-5 node exactly when number > 10, the subtract-1 node
\* exactly when 0 < number <= 10, and END exactly when number <= 0.
C4_RouterThresholds ==
    [][(graph \in CountdownGraphs) =>
         ( /\ routeCountdown(CounterState) \in {"subtract_five", "subtract_one", END}
           /\ routingFunction(CounterState) \in {"subtract5", "subtract1", END}
           /\ (cur' \in {"subtract_five", "subtract5"}) <=> (number > 10)
           /\ (cur' \in {"subtract_one", "subtract1"}) <=> (0 < number /\ number <= 10)
           /\ (cur' = END) <=> (number <= 0) )]_vars

\* number = 10 was routed to the subtract-1 node.
C4_Witness ==
    /\ graph = "simple_counter"
    /\ input.number = 10
    /\ cur = "subtract_one"
    /\ steps = 1
    /\ number = 9

\* C5: every countdown run reaches END, because every node execution strictly
\* decreases number and the router ends the run as soon as number <= 0.
C5_Terminates ==
    /\ (graph \in CountdownGraphs) => <>(cur = END)
    /\ [][(graph \in CountdownGraphs /\ cur' # END) => number' < number]_vars
    /\ [][(graph \in CountdownGraphs /\ number <= 0) => cur' = END]_vars

C5_Witness ==
    /\ graph \in CountdownGraphs
    /\ cur = END
    /\ input.number = MaxStart
    /\ input.history # <<>>
    /\ steps > 0

\* C6: from a positive initial number the run counts down to zero: number is
\* never negative and is exactly 0 at END.
C6_CountsDownToZero ==
    (graph \in CountdownGraphs /\ input.number > 0) =>
        /\ number >= 0
        /\ (cur = END => number = 0)

C6_Witness ==
    /\ graph \in CountdownGraphs
    /\ input.number = 13
    /\ cur = END
    /\ number = 0

----------------------------------------------------------------------------
\* Agent/tool loop properties.

CalculatorGraphs == {"calculator", "calculator_tools"}

RequestsToolCalls(m) == m.has_tool_calls /\ Len(m.tool_calls) > 0

\* Positions of the model replies appended by the current invocation.
ReplyPositions ==
    {i \in (Len(input.messages) + 1)..Len(messages) : messages[i].role = "assistant"}

LastReplyPosition ==
    CHOOSE i \in ReplyPositions : \A j \in ReplyPositions : j <= i

\* C7: after every execution of the agent node the next step goes to the tools
\* node exactly when the last message carries a non-empty tool-call list, and
\* to END when that list is empty or absent.
C7_RouteByToolCalls ==
    [][(graph \in AgentGraphs /\ cur = "agent" /\ cur' # cur) =>
          /\ Last(messages).role = "assistant"
          /\ (cur' = "tools") <=> RequestsToolCalls(Last(messages))
          /\ (cur' = END) <=> (~RequestsToolCalls(Last(messages)))
      ]_vars

\* A run that was routed to the tools node on a reply with tool calls, then
\* ended on a reply without the tool_calls property.
C7_Witness ==
    /\ graph = "calculator"
    /\ cur = END
    /\ ~Last(messages).has_tool_calls
    /\ \E i \in ReplyPositions :
          /\ RequestsToolCalls(messages[i])
          /\ messages[i + 1].role = "tool"

\* C8: every execution of the tools node is followed by the agent node: the
\* tools node never goes to END or to itself, and END is entered only from
\* the agent node.
C8_ToolsThenAgent ==
    [][(graph \in AgentGraphs /\ cur' # cur) =>
          /\ (cur = "tools") => (cur' = "agent")
          /\ (cur' = END) => (cur = "agent")
          /\ (cur' = "tools") => (cur = "agent")
      ]_vars

\* The agent node ran again after the tools node.
C8_Witness ==
    /\ graph = "browser_tool"
    /\ cur = "agent"
    /\ AgentTurns = 2
    /\ messages[Len(messages) - 1].role = "tool"

\* C9: the loop has no iteration cap: the run is at END only right after a
\* reply without tool calls, whatever the number of replies before it; every
\* earlier reply of the invocation requested tool calls, and after a reply
\* that requests tool calls the tools node is the step that is enabled.
C9_NoIterationCap ==
    graph \in AgentGraphs =>
        /\ (cur = END) =>
              /\ ReplyPositions # {}
              /\ LastReplyPosition = Len(messages)
              /\ ~RequestsToolCalls(Last(messages))
        /\ \A i \in ReplyPositions :
              ~RequestsToolCalls(messages[i]) =>
                  (i = Len(messages) /\ cur \in {"agent", END})
        /\ (cur = "agent" /\ RequestsToolCalls(Last(messages))
               /\ failure = "none") =>
              (ENABLED (CA_tools \/ CT_tools \/ BT_tools \/ WS_tools)
               /\ ~ENABLED (CA_end \/ CT_end \/ BT_end \/ WS_end))

\* Every reply up to the model's bound requested tools and the run has not
\* ended.
C9_Witness ==
    /\ graph = "calculator_tools"
    /\ AgentTurns = MaxTurns
    /\ \A i \in ReplyPositions : RequestsToolCalls(messages[i])
    /\ cur = "tools"

\* The two numbers of a calculator call, whatever the schema names them.
CallOperands(args) ==
    IF "a" \in DOMAIN args THEN <<args.a, args.b>>
    ELSE <<args.number1, args.number2>>

ExpectedResult(call) ==
    LET x == CallOperands(call.args)
    IN  IF call.name = "add" THEN x[1] + x[2] ELSE x[1] - x[2]

\* C10: after the tools node, the messages after the last reply are exactly
\* one tool-role message per requested call, in the order of the calls, each
\* carrying the id of its call and (for the calculator tools) its result; for
\* add(2,3) then subtract(10,4) the results are 5 then 6.
C10_DispatchOrder ==
    (graph \in AgentGraphs /\ cur = "tools") =>
        LET j == LastReplyPosition
            calls == messages[j].tool_calls
        IN  /\ Len(messages) = j + Len(calls)
            /\ \A k \in 1..Len(calls) :
                  /\ messages[j + k].role = "tool"
                  /\ messages[j + k].tool_call_id = calls[k].id
                  /\ graph \in CalculatorGraphs =>
                        messages[j + k].content = ExpectedResult(calls[k])
            /\ \A k1, k2 \in 1..Len(calls) :
                  k1 # k2 => calls[k1].id # calls[k2].id
            /\ ( /\ graph \in CalculatorGraphs
                 /\ Len(calls) = 2
                 /\ calls[1].name = "add"
                 /\ CallOperands(calls[1].args) = <<2, 3>>
                 /\ calls[2].name = "subtract"
                 /\ CallOperands(calls[2].args) = <<10, 4>> ) =>
                   ( /\ messages[j + 1].content = 5
                     /\ messages[j + 2].content = 6 )

\* add(2,3) then subtract(10,4) were dispatched.
C10_Witness ==
    /\ graph = "calculator"
    /\ cur = "tools"
    /\ Len(messages) >= 3
    /\ LET j == Len(messages) - 2
       IN  /\ messages[j].role = "assistant"
           /\ Len(messages[j].tool_calls) = 2
           /\ messages[j].tool_calls[1].name = "add"
           /\ messages[j].tool_calls[1].args = [a |-> 2, b |-> 3]
           /\ messages[j].tool_calls[2].name = "subtract"
           /\ messages[j].tool_calls[2].args = [a |-> 10, b |-> 4]
           /\ messages[j + 1].content = 5
           /\ messages[j + 2].content = 6

----------------------------------------------------------------------------
\* Extraction graph properties.

InFlight == DOMAIN inflight

\* C11 as stated: at most one node is in flight at any time, also in the
\* people-and-places graph.
C11_SingleInFlight ==
    graph \in ExtractionGraphs => Cardinality(InFlight) <= 1

\* C11, amended: at most one node of each pipeline is in flight at any time.
\* In the sequential people-extractor graph that is at most one node; in the
\* people-and-places graph the two pipelines both leave START and run in
\* parallel, so two nodes, one of each pipeline, can be in flight together.
\* A node in flight has not completed before.
C11_OnePerPipeline ==
    /\ graph = "people_extractor" => Cardinality(InFlight) <= 1
    /\ graph = "people_places" =>
          /\ InFlight \subseteq PeoplePipeline \cup PlacesPipeline
          /\ Cardinality(InFlight \cap PeoplePipeline) <= 1
          /\ Cardinality(InFlight \cap PlacesPipeline) <= 1
    /\ graph \in ExtractionGraphs => InFlight \cap DOMAIN returned = {}

\* Both extraction nodes are in flight.
C11_Witness ==
    /\ graph = "people_places"
    /\ InFlight = {"extract_people_names", "extract_place_names"}

PeoplePlacesFields == {"text", "names", "people", "place_names", "places"}

\* C12: in the people-and-places graph, whatever the interleaving, no write
\* of a completed node is lost or overwritten: every field a node returned
\* holds the value that node returned, and at END the state holds names and
\* people from the first pipeline and place_names and places from the second.
C12_DisjointWritesKept ==
    graph = "people_places" =>
        /\ \A node \in DOMAIN returned :
              \A f \in DOMAIN returned[node] :
                  f \in DOMAIN fields /\ fields[f] = returned[node][f]
        /\ cur = END =>
              /\ DOMAIN fields = PeoplePlacesFields
              /\ DOMAIN returned = PeoplePipeline \cup PlacesPipeline
              /\ fields.names = returned["extract_people_names"].names
              /\ fields.people = returned["map_to_people"].people
              /\ fields.place_names = returned["extract_place_names"].place_names
              /\ fields.places = returned["map_to_places"].places
              /\ fields.text = input.fields.text

\* A run in which the places pipeline finished last, with both lists non-empty.
C12_Witness ==
    /\ graph = "people_places"
    /\ cur = END
    /\ Len(fields.names) = 2
    /\ Len(fields.people) = 2
    /\ Len(fields.place_names) = 1
    /\ Len(fields.places) = 1

----------------------------------------------------------------------------
\* Error handling of the engine.

\* The fields Annotation.Root declares in people-extractor.
DeclaredFields == {"text", "names", "people"}

\* The node that returned in this step.
JustReturned == DOMAIN returned' \ DOMAIN returned

DeclaredDestinations == {"subtract_five", "subtract_one", END}

\* C14: when the router returns a destination outside the declared set, the
\* invocation fails with RoutingError and no further node executes.
C14_UndeclaredDestinationAborts ==
    [][graph = "engine_router" =>
          /\ (process' = process /\ routed' \notin DeclaredDestinations) =>
                /\ failure' = "RoutingError"
                /\ UNCHANGED <<cur, steps, number, history>>
          /\ failure = "RoutingError" =>
                /\ UNCHANGED <<cur, steps, number, history, failure>>
                /\ cur # END
    ]_vars

C14_Witness ==
    /\ graph = "engine_router"
    /\ failure = "RoutingError"
    /\ routed = "subtract_1"
    /\ steps = 2
    /\ cur = "subtract_one"

\* The last message requests a tool that its graph's tool list does not hold:
\* add and subtract for the calculators, tavily_search for the browser agent.
RequestsUnknownTool ==
    LET calls == Last(messages).tool_calls
        known == IF graph \in {"browser_tool", "web_search"}
                 THEN {"tavily_search"}
                 ELSE {"add", "subtract"}
    IN  \E k \in 1..Len(calls) : calls[k].name \notin known

\* C15: when the last assistant message requests a tool that is not
\* registered, the step out of the agent node fails with UnknownToolError: no
\* result message is appended, the invocation is aborted, and the agent node
\* does not run again.
C15_UnknownToolAborts ==
    [][(graph \in AgentGraphs) =>
          /\ (cur = "agent" /\ failure = "none" /\ RequestsUnknownTool) =>
                /\ failure' = "UnknownToolError"
                /\ messages' = messages
                /\ cur' = cur
                /\ steps' = steps
          /\ failure = "UnknownToolError" =>
                /\ UNCHANGED <<messages, cur, steps, failure, invocation>>
                /\ cur = "agent"
    ]_vars

\* After one round of tools, the model asked for add and then for multiply:
\* not even the add call got its result message.
C15_Witness ==
    /\ graph = "calculator"
    /\ failure = "UnknownToolError"
    /\ AgentTurns = 2
    /\ Len(Last(messages).tool_calls) = 2
    /\ Last(messages).tool_calls[1].name = "add"
    /\ Last(messages).tool_calls[2].name = "multiply"

\* C16: once a node's function has failed, nothing of the invocation goes on:
\* the node is not run again, no other node runs or completes, the run never
\* reaches END and no result is printed; the one step left is the catch handler
\* of the process, which logs the error and exits with code 1.  An exited
\* process takes no step.
C16_FailureIsFatal ==
    [][/\ (failure # "none") =>
             /\ UNCHANGED <<graph, cur, number, history, messages, steps, input,
                            invocation, failure, fields, inflight, returned>>
             /\ cur # END
             /\ process.state = "running"
             /\ process' = [state |-> "exited", code |-> 1, logged |-> failure]
       /\ (process'.logged = "result") => (failure' = "none" /\ cur' = END)
       /\ process.state = "running"
    ]_vars

\* In the second invocation the model call after the tools node failed, and
\* the process exited with code 1.
C16_Witness ==
    /\ graph = "browser_tool"
    /\ invocation = 2
    /\ AgentTurns = 1
    /\ cur = "tools"
    /\ failure = "ExternalCallFailure"
    /\ process = [state |-> "exited", code |-> 1,
                  logged |-> "ExternalCallFailure"]

----------------------------------------------------------------------------
\* Reducers.

\* A node of simple-counter executes in this step.
SimpleCounterNodeStep ==
    /\ graph = "simple_counter"
    /\ steps' = steps + 1

\* C17: number and history are overwrite fields.  After a node's partial state
\* is merged each of the two fields holds the value of that partial, whatever
\* was merged before (the history is the node's list, one entry longer than
\* the one it read, not the old list with the node's list appended), and
\* merging the same partial once more changes nothing.
C17_OverwriteIdempotent ==
    [][SimpleCounterNodeStep =>
          LET partial == SimpleCounterNodes(cur', CounterState)
              once == merge(CountdownState, CounterState, partial).state
              twice == merge(CountdownState, once, partial).state
          IN  /\ number' = partial.number
              /\ history' = partial.history
              /\ Len(history') = Len(history) + 1
              /\ once = [number |-> number', history |-> history']
              /\ twice = once
    ]_vars

\* Three partial states were merged on top of a history that was not empty.
C17_Witness ==
    /\ graph = "simple_counter"
    /\ steps = 3
    /\ Len(input.history) = 1
    /\ Len(history) = 4
    /\ number = input.number - 11

\* C18: messages is an append field.  What a node returns is added at the end
\* in the order it was returned and the messages already there keep their
\* positions: the agent node adds its one reply, the tools node one message
\* per call in the order of the calls.  Merging the update in two parts, one
\* after the other, gives the state that merging it at once gave.
C18_AppendKeepsOrder ==
    [][(graph \in AgentGraphs /\ steps' = steps + 1) =>
          LET added == SubSeq(messages', Len(messages) + 1, Len(messages'))
              calls == Last(messages).tool_calls
          IN  /\ Len(messages') >= Len(messages)
              /\ SubSeq(messages', 1, Len(messages)) = messages
              /\ (cur' = "agent") =>
                    (Len(added) = 1 /\ added[1].role = "assistant")
              /\ (cur' = "tools") =>
                    /\ Len(added) = Len(calls)
                    /\ \A k \in 1..Len(calls) :
                          added[k].tool_call_id = calls[k].id
              /\ \A k \in 0..Len(added) :
                    messagesStateReducer(
                        messagesStateReducer(messages,
                                             List(SubSeq(added, 1, k))),
                        List(SubSeq(added, k + 1, Len(added)))) = messages'
    ]_vars

\* The tools node of the browser agent added two messages after the reply.
C18_Witness ==
    /\ graph = "browser_tool"
    /\ invocation = 1
    /\ cur = "tools"
    /\ Len(NewMessages) = 3
    /\ NewMessages[1].role = "assistant"
    /\ NewMessages[2].role = "tool"
    /\ NewMessages[3].role = "tool"

----------------------------------------------------------------------------
\* Routing at START and after a node.

\* C19: a countdown invoked with number <= 0 is routed from START to END: no
\* node executes and the final state is the initial one, number and history
\* unchanged.
C19_EndAtStart ==
    (graph \in CountdownGraphs /\ input.number <= 0) =>
        /\ steps = 0
        /\ cur \in {START, END}
        /\ number = input.number
        /\ history = input.history
        /\ (cur = START) =>
              (ENABLED (SC_end \/ CD_end)
               /\ ~ENABLED (SC_subtract_five \/ SC_subtract_one
                            \/ CD_subtract5 \/ CD_subtract1))

\* The run from 0 with a history of one entry is at END.
C19_Witness ==
    /\ graph = "simple_counter"
    /\ cur = END
    /\ input.number = 0
    /\ number = 0
    /\ Len(history) = 1

\* The number the router was evaluated on before node execution k of the
\* run: the input number for the first, and after that the number merged by
\* execution k - 1, which is the entry that execution added to the history.
NumberSeen(k) ==
    IF k = 1 THEN input.number ELSE history[Len(input.history) + k - 1]

\* C20: the router of a conditional edge is evaluated on the state after the
\* source node's partial state was merged: every node execution is the one
\* the thresholds pick for the number the execution before it left (after
\* 15 - 5 = 10 the subtract-1 node runs), and the run ends on the merged
\* number.
C20_RoutesOnMergedState ==
    (graph = "simple_counter") =>
        /\ Len(history) = Len(input.history) + steps
        /\ number = NumberSeen(steps + 1)
        /\ \A k \in 1..steps :
              /\ NumberSeen(k) > 0
              /\ NumberSeen(k + 1) =
                    IF NumberSeen(k) > 10 THEN NumberSeen(k) - 5
                    ELSE NumberSeen(k) - 1
        /\ (cur = END) => (number <= 0)

\* From 15 the subtract-5 node left 10, and the subtract-1 node ran next.
C20_Witness ==
    /\ graph = "simple_counter"
    /\ input.number = 15
    /\ steps = 2
    /\ cur = "subtract_one"
    /\ number = 9

----------------------------------------------------------------------------
\* The extraction graphs.

\* Graph, extraction node, mapping node, and the field that goes from the
\* first to the second.
MappingPairs ==
    {<<"people_extractor", "extract_names", "map_to_people", "names">>,
     <<"people_places", "extract_people_names", "map_to_people", "names">>,
     <<"people_places", "extract_place_names", "map_to_places",
       "place_names">>,
     <<"names_to_people", "extractor", "mapper", "names">>}

\* C21: a mapping node runs only after its extraction node has completed and
\* the extracted list has been merged: once the mapping node has started, the
\* extraction node has returned and the state holds its list, and the state
\* the mapping node reads holds that list.
C21_MapAfterExtract ==
    \A p \in MappingPairs :
        (graph = p[1]) =>
            /\ (p[3] \in DOMAIN inflight \cup DOMAIN returned) =>
                  /\ p[2] \in DOMAIN returned
                  /\ p[4] \in DOMAIN fields
                  /\ fields[p[4]] = returned[p[2]][p[4]]
            /\ (p[3] \in DOMAIN inflight) =>
                  /\ p[4] \in DOMAIN inflight[p[3]]
                  /\ inflight[p[3]][p[4]] = returned[p[2]][p[4]]

\* map_to_places is running on the extracted place while the extraction of
\* the other pipeline is still in flight.
C21_Witness ==
    /\ graph = "people_places"
    /\ "map_to_places" \in DOMAIN inflight
    /\ inflight["map_to_places"].place_names = <<"Paris">>
    /\ "extract_people_names" \in DOMAIN inflight

\* What a mapping function has to return for a list of names.
Numbered(names) ==
    [i \in 1..Len(names) |-> [id |-> i, name |-> names[i]]]

\* The list a state holds in a field; none when the field is absent.
ListIn(state, field) == IF field \in DOMAIN state THEN state[field] ELSE <<>>

\* The states a mapping function may be given: the current one and the ones
\* the running nodes have read.
StatesRead == {fields} \cup {inflight[node] : node \in DOMAIN inflight}

----------------------------------------------------------------------------
\* The countdown runs, node by node.

SubtractFiveNodes == {"subtract_five", "subtract5"}
SubtractOneNodes == {"subtract_one", "subtract1"}

\* C23: in a countdown run started with an empty history, the history has
\* one entry per node execution so far, its last entry is the current number,
\* and its entries are strictly decreasing, so none occurs twice.
C23_HistoryPerExecution ==
    (graph \in CountdownGraphs /\ input.history = <<>>) =>
        /\ Len(history) = steps
        /\ (steps > 0) => (Last(history) = number)
        /\ (steps = 0) => (number = input.number)
        /\ \A i, j \in 1..Len(history) :
              (i < j) => (history[i] > history[j])

\* The run of part_001 from 12: 7, 6, 5.
C23_Witness ==
    /\ graph = "countdown"
    /\ input.number = 12
    /\ input.history = <<>>
    /\ history = <<7, 6, 5>>

\* C24: once the subtract-1 node has executed, the subtract-5 node does not
\* execute again: the step after a subtract-1 execution is another one or
\* END, and the number it leaves is below 10.
C24_NoFiveAfterOne ==
    [][(graph \in CountdownGraphs /\ cur \in SubtractOneNodes) =>
          /\ number <= 9
          /\ cur' \notin SubtractFiveNodes
          /\ cur' \in SubtractOneNodes \cup {END}
    ]_vars

\* From 12 the subtract-5 node ran once and the subtract-1 node three times.
C24_Witness ==
    /\ graph = "simple_counter"
    /\ input.number = 12
    /\ steps = 4
    /\ cur = "subtract_one"
    /\ number = 4

\* C25: the subtract-5 node leaves a number of at least 6, so END never
\* follows it directly, and in a finished run at least six subtract-1
\* executions come after every subtract-5 execution.
C25_FiveLeavesAtLeastSix ==
    (graph \in CountdownGraphs) =>
        /\ (cur \in SubtractFiveNodes) =>
              /\ number >= 6
              /\ ~ENABLED (SC_end \/ CD_end)
        /\ (cur = END) =>
              \A k \in 1..steps :
                  (NumberSeen(k) - NumberSeen(k + 1) = 5) => (steps - k >= 6)

\* From 11: one subtract-5 execution, then six subtract-1 executions to END.
C25_Witness ==
    /\ graph = "countdown"
    /\ input.number = 11
    /\ cur = END
    /\ steps = 7
    /\ number = 0

----------------------------------------------------------------------------
\* The two countdown implementations side by side.

\* The run of simple-counter from an input, as a function: the state and the
\* node executed last after n node executions, or at END if that comes first.
RECURSIVE SimpleCounterRun(_, _)
SimpleCounterRun(n, initial) ==
    IF n = 0 THEN [state |-> initial, node |-> START]
    ELSE LET before == SimpleCounterRun(n - 1, initial)
             dest == routeCountdown(before.state)
         IN  IF dest = END THEN before
             ELSE [state |-> merge(CountdownState, before.state,
                                   SimpleCounterNodes(dest, before.state)).state,
                   node |-> dest]

\* The same for the workflow of part_001.
RECURSIVE CountdownRun(_, _)
CountdownRun(n, initial) ==
    IF n = 0 THEN [state |-> initial, node |-> START]
    ELSE LET before == CountdownRun(n - 1, initial)
             dest == routingFunction(before.state)
         IN  IF dest = END THEN before
             ELSE [state |-> merge(CounterStateAnnotation, before.state,
                                   CountdownNodes(dest, before.state)).state,
                   node |-> dest]

\* The node of simple-counter that a node of part_001 corresponds to.
Corresponding(node) ==
    CASE node = "subtract5" -> "subtract_five"
      [] node = "subtract1" -> "subtract_one"
      [] OTHER -> node

\* C26: the two countdown implementations are equivalent.  Whatever state a
\* run of one of them is in, the other implementation, started from the same
\* number and history, is after as many node executions in the same number
\* and history, having executed the corresponding node last, and its router
\* picks the corresponding destination next; it is at END when the other is.
C26_CountdownsEquivalent ==
    LET initial == [number |-> input.number, history |-> input.history]
    IN  /\ (graph = "simple_counter") =>
              LET other == CountdownRun(steps, initial)
              IN  /\ other.state = CounterState
                  /\ (cur # END) => (Corresponding(other.node) = cur)
                  /\ (cur = END) => (routingFunction(other.state) = END)
                  /\ Corresponding(routingFunction(other.state)) =
                        routeCountdown(CounterState)
        /\ (graph = "countdown") =>
              LET other == SimpleCounterRun(steps, initial)
              IN  /\ other.state = CounterState
                  /\ (cur # END) => (other.node = Corresponding(cur))
                  /\ (cur = END) => (routeCountdown(other.state) = END)
                  /\ routeCountdown(other.state) =
                        Corresponding(routingFunction(CounterState))

\* The run of part_001 from 23 with a history of one entry is at END after
\* three subtract-5 and eight subtract-1 executions.
C26_Witness ==
    /\ graph = "countdown"
    /\ input.number = 23
    /\ Len(input.history) = 1
    /\ cur = END
    /\ steps = 11
    /\ Len(history) = 12

----------------------------------------------------------------------------
\* The message list of the agent graphs.

\* Every model reply in the list, those of an earlier invocation included.
AllReplies == {i \in 1..Len(messages) : messages[i].role = "assistant"}

\* The initial messages are a prefix, a reply that requests tool calls is the
\* last message or is followed by the result messages of its calls, and at
\* END the last message is a reply without tool calls.
MessagesInShape ==
    /\ Len(messages) >= Len(input.messages)
    /\ SubSeq(messages, 1, Len(input.messages)) = input.messages
    /\ \A i \in AllReplies :
          RequestsToolCalls(messages[i]) =>
              \/ i = Len(messages)
              \/ LET calls == messages[i].tool_calls
                 IN  /\ Len(messages) >= i + Len(calls)
                     /\ \A k \in 1..Len(calls) :
                           /\ messages[i + k].role = "tool"
                           /\ messages[i + k].tool_call_id = calls[k].id
    /\ (cur = END) =>
          /\ Last(messages).role = "assistant"
          /\ ~RequestsToolCalls(Last(messages))

\* C27: in an agent run the message list only grows: every step keeps the
\* messages it found, in their order, as a prefix; the initial messages stay
\* a prefix; every reply that requests tool calls is followed by the results
\* of its calls before the next reply; and at END the last message is a reply
\* without tool calls.
C27_MessagesOnlyGrow ==
    [][(graph \in AgentGraphs) =>
          /\ MessagesInShape
          /\ MessagesInShape'
          /\ Len(messages') >= Len(messages)
          /\ SubSeq(messages', 1, Len(messages)) = messages
    ]_vars

\* The second invocation of the web search agent ended after a round of
\* tools, on the messages of a first invocation that had one too.
C27_Witness ==
    /\ graph = "web_search"
    /\ invocation = 2
    /\ cur = END
    /\ Len(input.messages) = 5
    /\ input.messages[3].role = "tool"
    /\ Len(messages) = 8
    /\ messages[7].role = "tool"

OutputField ==
    {<<"people_extractor", "extract_names", "names">>,
     <<"people_extractor", "map_to_people", "people">>,
     <<"people_places", "extract_people_names", "names">>,
     <<"people_places", "map_to_people", "people">>,
     <<"people_places", "extract_place_names", "place_names">>,
     <<"people_places", "map_to_places", "places">>,
     <<"names_to_people", "extractor", "names">>,
     <<"names_to_people", "mapper", "people">>}

\* C29: in the extraction graphs every node writes its own output field and
\* nothing else (an extraction node names or place_names, a mapping node
\* people or places), no two nodes of a graph write the same field, and text
\* is never written: at every point of the run it is the text of the input.
C29_NodesWriteOwnField ==
    graph \in ExtractionGraphs =>
        /\ \A node \in DOMAIN returned :
              \E o \in OutputField :
                  /\ o[1] = graph
                  /\ o[2] = node
                  /\ DOMAIN returned[node] = {o[3]}
        /\ \A m, n \in DOMAIN returned :
              m # n => DOMAIN returned[m] \cap DOMAIN returned[n] = {}
        /\ \A node \in DOMAIN inflight :
              inflight[node].text = input.fields.text
        /\ "text" \in DOMAIN fields
        /\ fields.text = input.fields.text

\* Both pipelines of the people-and-places graph ran to END, the first on an
\* empty list of names.
C29_Witness ==
    /\ graph = "people_places"
    /\ cur = END
    /\ DOMAIN returned = PeoplePipeline \cup PlacesPipeline
    /\ returned["map_to_people"] = [people |-> <<>>]
    /\ Len(returned["map_to_places"].places) >= 1
    /\ fields.text = "The team includes Alice, Bob"

=============================================================================
